---- MODULE Spec2Model ----
(***************************************************************************)
(* Model of src/replay.js: the trace parser (the readline 'line' handler), *)
(* the replay loop of main(), the three channel signal handlers and the    *)
(* exit-or-kill shutdown.  The server-harness channel is an external       *)
(* library: its answers, signals and the moments at which kill() and       *)
(* exitOrKill() settle are chosen nondeterministically.                    *)
(*                                                                         *)
(* A trace line is abstracted to its kind; a request record keeps the      *)
(* number of the line it came from (seq) and its command.                  *)
(***************************************************************************)
EXTENDS Integers, Sequences, FiniteSets, TLC

\* ---------------------------------------------------------------- bounds
MaxLen == 3        \* longest trace, in lines
MaxSignals == 2    \* communicationError / event signals emitted per run

\* ------------------------------------------------------- program constants
SentinelSeq == 999999          \* seq of the synthesized exit request
GraceMs == 5000                \* grace period handed to exitOrKill
NoContent == "No content available."
DefaultPlaceholder == "@PROJECT_ROOT@"
DefaultServerArgs == <<"--disableAutomaticTypingAcquisition">>

NotExited == -1                \* exitStatus while the process is running

\* -------------------------------------------------------------- the trace
\* Kinds of trace line:
\*   blank    line.trim().length === 0
\*   header   JSON object without a command field
\*   badjson  text JSON.parse rejects
\*   badfile  updateOpen request naming a file readFileSync cannot read
\*   request  well-formed request with an ordinary command
\*   exit     well-formed request with command "exit"
LineKinds == {"blank", "header", "badjson", "badfile", "request", "exit"}

RECURSIVE SeqsUpTo(_, _)
SeqsUpTo(S, n) ==
    IF n = 0 THEN {<<>>}
    ELSE LET shorter == SeqsUpTo(S, n - 1)
         IN  shorter \cup {Append(s, x) : s \in {t \in shorter : Len(t) = n - 1}, x \in S}

Traces == SeqsUpTo(LineKinds, MaxLen)

\* What JSON.parse yields for a line: does it parse, and its command field.
Parses(kind) == kind \notin {"blank", "badjson"}

CommandOf(kind) ==
    CASE kind = "header"  -> "undefined"
      [] kind = "badfile" -> "updateOpen"
      [] kind = "request" -> "open"
      [] kind = "exit"    -> "exit"
      [] OTHER            -> "undefined"

\* The header of the model's traces overrides both settings.
HeaderPlaceholder == "<TOK>"
HeaderServerArgs == <<"--useNodeIpc">>

\* ------------------------------------------------------------- responses
Absent == [present |-> FALSE, success |-> FALSE, message |-> "undefined"]
Responses ==
    { Absent,
      [present |-> TRUE, success |-> TRUE,  message |-> "undefined"],
      [present |-> TRUE, success |-> FALSE, message |-> NoContent],
      [present |-> TRUE, success |-> FALSE, message |-> "oops"] }

NoResponse == [present |-> FALSE, success |-> TRUE, message |-> "none yet"]

VARIABLES
    unattended,          \* args.u
    trace,               \* the lines of the requests file
    lineNo,              \* lines delivered to the 'line' handler so far
    firstLine,
    sawExit,
    requests,
    rootDirPlaceholder,
    serverArgs,
    pc,                  \* where main() is suspended
    idx,                 \* position of the replay loop in requests
    response,            \* the loop's last response
    exitRequested,
    channel,             \* "none" before launchServer, then "open", "closed"
    sent,                \* requests handed to server.message, in order
    inflight,            \* server.message calls not yet answered
    pendingKill,         \* exit codes of handlers suspended in await server.kill()
    killCalls,
    exitOrKillCalls,
    graceGiven,          \* argument of the last exitOrKill call
    signals,             \* communicationError / event signals emitted
    closeReport,         \* what the close handler logged
    closeArgs,           \* whether close came with a nonzero code or a signal
    shutdownResult,      \* what the awaited exitOrKill call produced
    firstFatal,          \* history: what began the shutdown of an unattended run
    exitStatus

vars == << unattended, trace, lineNo, firstLine, sawExit, requests,
           rootDirPlaceholder, serverArgs, pc, idx, response, exitRequested,
           channel, sent, inflight, pendingKill, killCalls, exitOrKillCalls,
           graceGiven, signals, closeReport, closeArgs, shutdownResult, firstFatal,
           exitStatus >>

parserVars == << firstLine, sawExit, requests, rootDirPlaceholder, serverArgs >>
loopVars == << pc, idx, response, sent, inflight >>

Running == exitStatus = NotExited

Init ==
    /\ unattended \in BOOLEAN
    /\ trace \in Traces
    /\ lineNo = 0
    /\ firstLine = TRUE
    /\ sawExit = FALSE
    /\ requests = <<>>
    /\ rootDirPlaceholder = DefaultPlaceholder
    /\ serverArgs = DefaultServerArgs
    /\ pc = "reading"
    /\ idx = 0
    /\ response = NoResponse
    /\ exitRequested = FALSE
    /\ channel = "none"
    /\ sent = <<>>
    /\ inflight = 0
    /\ pendingKill = <<>>
    /\ killCalls = 0
    /\ exitOrKillCalls = 0
    /\ graceGiven = 0
    /\ signals = 0
    /\ closeReport = "none"
    /\ closeArgs = "none"
    /\ shutdownResult = "none"
    /\ firstFatal = "none"
    /\ exitStatus = NotExited

\* ------------------------------------------------------------ the parser
\* The body of the try block for one line: the outcome is "return" (blank
\* line or header), "push" (a record is appended), "drop" (exit record in
\* unattended mode) or "throw".
LineOutcomeKeepsExit(kind, first, unatt) ==
    IF kind = "blank" THEN "return"
    ELSE IF first /\ ~Parses(kind) THEN "throw"
    ELSE IF first /\ CommandOf(kind) = "undefined" THEN "header"
    ELSE IF ~Parses(kind) THEN "throw"
    ELSE IF kind = "badfile" THEN "throw"
    ELSE "push"

LineOutcomeSwallowsBadJson(kind, first, unatt) ==
    IF kind = "blank" THEN "return"
    ELSE IF ~Parses(kind) THEN "return"
    ELSE IF first /\ CommandOf(kind) = "undefined" THEN "header"
    ELSE IF kind = "badfile" THEN "throw"
    ELSE IF CommandOf(kind) = "exit" /\ unatt THEN "drop"
    ELSE "push"

LineOutcomePushesBadFile(kind, first, unatt) ==
    IF kind = "blank" THEN "return"
    ELSE IF first /\ ~Parses(kind) THEN "throw"
    ELSE IF first /\ CommandOf(kind) = "undefined" THEN "header"
    ELSE IF ~Parses(kind) THEN "throw"
    ELSE IF CommandOf(kind) = "exit" /\ unatt THEN "drop"
    ELSE "push"

LineOutcomeDropsExitAlways(kind, first, unatt) ==
    IF kind = "blank" THEN "return"
    ELSE IF first /\ ~Parses(kind) THEN "throw"
    ELSE IF first /\ CommandOf(kind) = "undefined" THEN "header"
    ELSE IF ~Parses(kind) THEN "throw"
    ELSE IF kind = "badfile" THEN "throw"
    ELSE IF CommandOf(kind) = "exit" THEN "drop"
    ELSE "push"

LineOutcome(kind, first, unatt) ==
    IF kind = "blank" THEN "return"
    ELSE IF first /\ ~Parses(kind) THEN "throw"
    ELSE IF first /\ CommandOf(kind) = "undefined" THEN "header"
    ELSE IF ~Parses(kind) THEN "throw"
    ELSE IF kind = "badfile" THEN "throw"
    ELSE IF CommandOf(kind) = "exit" /\ unatt THEN "drop"
    ELSE "push"

\* firstLine after the handler ran: the finally block runs on every path.
FirstLineAfter(kind, first) == FALSE

\* rl.on('line', ...)
LineHandler ==
    /\ Running
    /\ pc = "reading"
    /\ lineNo < Len(trace)
    /\ LET kind == trace[lineNo + 1]
           out == LineOutcome(kind, firstLine, unattended)
       IN  /\ lineNo' = lineNo + 1
           /\ firstLine' = FirstLineAfter(kind, firstLine)
           /\ rootDirPlaceholder' =
                 IF out = "header" THEN HeaderPlaceholder ELSE rootDirPlaceholder
           /\ serverArgs' = IF out = "header" THEN HeaderServerArgs ELSE serverArgs
           /\ sawExit' = IF out \in {"push", "drop"}
                         THEN sawExit \/ CommandOf(kind) = "exit"
                         ELSE sawExit
           /\ requests' = IF out = "push"
                          THEN Append(requests, [seq |-> lineNo + 1, command |-> CommandOf(kind)])
                          ELSE requests
           /\ exitStatus' = IF out = "throw" /\ unattended THEN 2 ELSE exitStatus
    /\ UNCHANGED << unattended, trace, loopVars, exitRequested, channel,
                    pendingKill, killCalls, exitOrKillCalls, graceGiven,
                    signals, closeReport, closeArgs, shutdownResult, firstFatal >>

\* ------------------------------------------------------- the replay loop
\* The records main() iterates over: the sentinel is appended when no exit
\* was seen and the mode is interactive.
WithSentinelAlways(reqs, saw, unatt) ==
    IF ~unatt
    THEN Append(reqs, [seq |-> SentinelSeq, command |-> "exit"])
    ELSE reqs

WithSentinel(reqs, saw, unatt) ==
    IF ~saw /\ ~unatt
    THEN Append(reqs, [seq |-> SentinelSeq, command |-> "exit"])
    ELSE reqs

\* The condition of the unsuccessful-response branch.
IsUnsuccessfulAnyFailure(r) == r.present /\ ~r.success

IsUnsuccessful(r) == r.present /\ ~r.success /\ r.message # NoContent

\* exitOrKillServer() up to its await: the flag, then the library call.
CallExitOrKill(next) ==
    /\ exitRequested' = TRUE
    /\ exitOrKillCalls' = exitOrKillCalls + 1
    /\ graceGiven' = GraceMs
    /\ pc' = next

\* Entering iteration i of the for loop over reqs, up to the next await:
\* either request i is sent, or the loop is over and main() goes on to the
\* final shutdown (unattended) or returns (interactive).  answered is the
\* number of server.message calls that have just settled.
IterateNoAwait(reqs, i, answered) ==
    IF i <= Len(reqs)
    THEN /\ exitRequested' = (exitRequested \/ \E k \in i..Len(reqs) : reqs[k].command = "exit")
         /\ sent' = sent \o SubSeq(reqs, i, Len(reqs))
         /\ inflight' = inflight - answered + (Len(reqs) - i + 1)
         /\ idx' = Len(reqs)
         /\ pc' = "message"
         /\ UNCHANGED << exitOrKillCalls, graceGiven, firstFatal >>
    ELSE /\ idx' = i
         /\ inflight' = inflight - answered
         /\ sent' = sent
         /\ IF unattended
            THEN /\ CallExitOrKill("finalShutdown")
                 /\ firstFatal' = IF firstFatal = "none" THEN "completed" ELSE firstFatal
            ELSE /\ pc' = "done"
                 /\ UNCHANGED << exitRequested, exitOrKillCalls, graceGiven, firstFatal >>

IterateNoFlag(reqs, i, answered) ==
    IF i <= Len(reqs)
    THEN /\ exitRequested' = exitRequested
         /\ sent' = Append(sent, reqs[i])
         /\ inflight' = inflight - answered + 1
         /\ idx' = i
         /\ pc' = "message"
         /\ UNCHANGED << exitOrKillCalls, graceGiven, firstFatal >>
    ELSE /\ idx' = i
         /\ inflight' = inflight - answered
         /\ sent' = sent
         /\ IF unattended
            THEN /\ CallExitOrKill("finalShutdown")
                 /\ firstFatal' = IF firstFatal = "none" THEN "completed" ELSE firstFatal
            ELSE /\ pc' = "done"
                 /\ UNCHANGED << exitRequested, exitOrKillCalls, graceGiven, firstFatal >>

IterateStopsAtExit(reqs, i, answered) ==
    IF i <= Len(reqs) /\ ~(i > 1 /\ reqs[i - 1].command = "exit")
    THEN /\ exitRequested' = (exitRequested \/ reqs[i].command = "exit")
         /\ sent' = Append(sent, reqs[i])
         /\ inflight' = inflight - answered + 1
         /\ idx' = i
         /\ pc' = "message"
         /\ UNCHANGED << exitOrKillCalls, graceGiven, firstFatal >>
    ELSE /\ idx' = i
         /\ inflight' = inflight - answered
         /\ sent' = sent
         /\ IF unattended
            THEN /\ CallExitOrKill("finalShutdown")
                 /\ firstFatal' = IF firstFatal = "none" THEN "completed" ELSE firstFatal
            ELSE /\ pc' = "done"
                 /\ UNCHANGED << exitRequested, exitOrKillCalls, graceGiven, firstFatal >>

Iterate(reqs, i, answered) ==
    IF i <= Len(reqs)
    THEN /\ exitRequested' = (exitRequested \/ reqs[i].command = "exit")
         /\ sent' = Append(sent, reqs[i])
         /\ inflight' = inflight - answered + 1
         /\ idx' = i
         /\ pc' = "message"
         /\ UNCHANGED << exitOrKillCalls, graceGiven, firstFatal >>
    ELSE /\ idx' = i
         /\ inflight' = inflight - answered
         /\ sent' = sent
         /\ IF unattended
            THEN /\ CallExitOrKill("finalShutdown")
                 /\ firstFatal' = IF firstFatal = "none" THEN "completed" ELSE firstFatal
            ELSE /\ pc' = "done"
                 /\ UNCHANGED << exitRequested, exitOrKillCalls, graceGiven, firstFatal >>

\* rl 'close': main() resumes after the whole trace was read, launches the
\* server, registers the handlers and runs to its first await.
Launch ==
    /\ Running
    /\ pc = "reading"
    /\ lineNo = Len(trace)
    /\ requests' = WithSentinel(requests, sawExit, unattended)
    /\ channel' = "open"
    /\ Iterate(requests', 1, 0)
    /\ UNCHANGED << unattended, trace, lineNo, firstLine, sawExit,
                    rootDirPlaceholder, serverArgs, response, pendingKill,
                    killCalls, signals, closeReport, closeArgs, shutdownResult,
                    exitStatus >>

\* The awaited server.message settles with r; main() evaluates it and runs
\* to its next await.
RespondRetries(r) ==
    /\ Running
    /\ pc = "message"
    /\ channel = "open"
    /\ response' = r
    /\ IF IsUnsuccessful(r) /\ unattended
       THEN /\ sent' = Append(sent, requests[idx])
            /\ UNCHANGED << idx, pc, inflight, exitRequested, exitOrKillCalls,
                            graceGiven, firstFatal >>
       ELSE Iterate(requests, idx + 1, 1)
    /\ UNCHANGED << unattended, trace, lineNo, parserVars, channel, pendingKill,
                    killCalls, signals, closeReport, closeArgs, shutdownResult,
                    exitStatus >>

Respond(r) ==
    /\ Running
    /\ pc = "message"
    /\ channel = "open"
    /\ response' = r
    /\ IF IsUnsuccessful(r) /\ unattended
       THEN /\ CallExitOrKill("failShutdown")
            /\ inflight' = inflight - 1
            /\ firstFatal' = IF firstFatal = "none" THEN "response" ELSE firstFatal
            /\ UNCHANGED << idx, sent >>
       ELSE Iterate(requests, idx + 1, 1)
    /\ UNCHANGED << unattended, trace, lineNo, parserVars, channel, pendingKill,
                    killCalls, signals, closeReport, closeArgs, shutdownResult, exitStatus >>

\* The awaited server.exitOrKill settles: true (clean exit), false (the
\* server had to be killed) or an exception.
ShutdownResults == {"clean", "killed", "threw"}

ExitOrKillReturn(res) ==
    /\ Running
    /\ pc \in {"failShutdown", "finalShutdown"}
    /\ shutdownResult' = res
    /\ pc' = "done"
    /\ exitStatus' =
          IF pc = "failShutdown" THEN 5
          ELSE IF res = "killed" THEN 6
          ELSE IF res = "threw" THEN 1
          ELSE exitStatus
    /\ UNCHANGED << unattended, trace, lineNo, parserVars, idx, response, sent,
                    inflight, exitRequested, channel, pendingKill, killCalls,
                    exitOrKillCalls, graceGiven, signals, closeReport, closeArgs,
                    firstFatal >>

\* ---------------------------------------------------- the signal handlers
\* server.on("close", (code, signal) => ...); abnormal stands for a nonzero
\* code or a signal.
CloseLogsOnlyAnomalies(unatt, requested, abnormal) == ~requested \/ abnormal

CloseLogs(unatt, requested, abnormal) == ~unatt \/ ~requested \/ abnormal

CloseKillsAlways(unatt, requested) == unatt

CloseKills(unatt, requested) == unatt /\ ~requested

Close(abnormal) ==
    /\ Running
    /\ channel = "open"
    /\ channel' = "closed"
    /\ closeArgs' = (IF abnormal THEN "abnormal" ELSE "normal")
    /\ closeReport' =
          IF CloseLogs(unattended, exitRequested, abnormal)
          THEN (IF exitRequested THEN "Shut down" ELSE "Exited unexpectedly")
          ELSE "silent"
    /\ exitStatus' = IF CloseKills(unattended, exitRequested) THEN 3 ELSE exitStatus
    /\ firstFatal' = IF CloseKills(unattended, exitRequested) /\ firstFatal = "none"
                     THEN "close" ELSE firstFatal
    /\ UNCHANGED << unattended, trace, lineNo, parserVars, loopVars,
                    exitRequested, pendingKill, killCalls, exitOrKillCalls,
                    graceGiven, signals, shutdownResult >>

\* The unattended branch shared by the communicationError and event
\* handlers, up to the await: the flag, then server.kill(); the handler is
\* left suspended with the status it will exit with.
FlagAndKill(code, cause) ==
    /\ exitRequested' = TRUE
    /\ killCalls' = killCalls + 1
    /\ pendingKill' = Append(pendingKill, code)
    /\ firstFatal' = IF firstFatal = "none" THEN cause ELSE firstFatal

\* server.on("communicationError", async err => ...)
CommunicationErrorAnyMode ==
    /\ Running
    /\ channel = "open"
    /\ signals < MaxSignals
    /\ signals' = signals + 1
    /\ FlagAndKill(7, "commError")
    /\ UNCHANGED << unattended, trace, lineNo, parserVars, loopVars, channel,
                    exitOrKillCalls, graceGiven, closeReport, closeArgs, shutdownResult,
                    exitStatus >>

CommunicationError ==
    /\ Running
    /\ channel = "open"
    /\ signals < MaxSignals
    /\ signals' = signals + 1
    /\ IF unattended
       THEN FlagAndKill(7, "commError")
       ELSE UNCHANGED << exitRequested, killCalls, pendingKill, firstFatal >>
    /\ UNCHANGED << unattended, trace, lineNo, parserVars, loopVars, channel,
                    exitOrKillCalls, graceGiven, closeReport, closeArgs, shutdownResult,
                    exitStatus >>

\* server.on("event", async e => ...)
EventNames == {"projectLanguageServiceState", "typingsInstallerPid"}

ServiceDisabled(name, enabled) == name = "projectLanguageServiceState" /\ ~enabled

Event(name, enabled) ==
    /\ Running
    /\ channel = "open"
    /\ signals < MaxSignals
    /\ signals' = signals + 1
    /\ IF ServiceDisabled(name, enabled) /\ unattended
       THEN FlagAndKill(4, "event")
       ELSE UNCHANGED << exitRequested, killCalls, pendingKill, firstFatal >>
    /\ UNCHANGED << unattended, trace, lineNo, parserVars, loopVars, channel,
                    exitOrKillCalls, graceGiven, closeReport, closeArgs, shutdownResult,
                    exitStatus >>

\* An awaited server.kill() settles and its handler calls process.exit.
KillReturn(i) ==
    /\ Running
    /\ i \in DOMAIN pendingKill
    /\ exitStatus' = pendingKill[i]
    /\ UNCHANGED << unattended, trace, lineNo, parserVars, loopVars,
                    exitRequested, channel, pendingKill, killCalls,
                    exitOrKillCalls, graceGiven, signals, closeReport, closeArgs,
                    shutdownResult, firstFatal >>

\* Nothing is left to run: main() has returned or waits for an answer the
\* closed channel will never give, no handler is suspended, the child is
\* gone.  Node ends the process with status 0.
NaturalExit ==
    /\ Running
    /\ channel = "closed"
    /\ pc \in {"done", "message"}
    /\ pendingKill = <<>>
    /\ exitStatus' = 0
    /\ UNCHANGED << unattended, trace, lineNo, parserVars, loopVars,
                    exitRequested, channel, pendingKill, killCalls,
                    exitOrKillCalls, graceGiven, signals, closeReport, closeArgs,
                    shutdownResult, firstFatal >>

Next ==
    \/ LineHandler
    \/ Launch
    \/ \E r \in Responses : Respond(r)
    \/ \E res \in ShutdownResults : ExitOrKillReturn(res)
    \/ \E abnormal \in BOOLEAN : Close(abnormal)
    \/ CommunicationError
    \/ \E name \in EventNames, enabled \in BOOLEAN : Event(name, enabled)
    \/ \E i \in 1..MaxSignals : KillReturn(i)
    \/ NaturalExit

Spec == Init /\ [][Next]_vars

\* Unattended runs under the scheduling the event loop and the channel give:
\* every line of the file is delivered and rl closes; an in-flight request
\* is answered or the channel closes, and a channel whose process is gone
\* emits close; every awaited kill and exitOrKill settles; a process with
\* nothing left to run ends.
ChannelStep ==
    \/ \E r \in Responses : Respond(r)
    \/ \E abnormal \in BOOLEAN : Close(abnormal)

InitUnattended == Init /\ unattended

FairUnattendedSpec ==
    /\ InitUnattended
    /\ [][Next]_vars
    /\ WF_vars(LineHandler)
    /\ WF_vars(Launch)
    /\ WF_vars(ChannelStep)
    /\ WF_vars(\E res \in ShutdownResults : ExitOrKillReturn(res))
    /\ WF_vars(\E i \in 1..MaxSignals : KillReturn(i))
    /\ WF_vars(NaturalExit)

\* ------------------------------------------------------------ properties
Exited == exitStatus # NotExited

IsPrefix(a, b) == Len(a) <= Len(b) /\ a = SubSeq(b, 1, Len(a))

\* C1: in both modes at most one request is in flight at any time, and the
\* requests sent on the channel are a prefix of the prepared sequence, in
\* the order of their lines in the trace.
C1_OneInFlightPrefix ==
    /\ inflight \in {0, 1}
    /\ IsPrefix(sent, requests)
    /\ \A i, j \in DOMAIN sent : i < j => sent[i].seq < sent[j].seq

C1_Witness ==
    /\ Len(sent) = 2
    /\ inflight = 1
    /\ Len(requests) > 2

\* C2: in an unattended run whose first failure is an unsuccessful response,
\* the driver has called exitOrKill, sends nothing after the failing
\* request, and the status it terminates with is 5.
C2_FailureExitsWith5 ==
    (unattended /\ firstFatal = "response") =>
        /\ exitOrKillCalls >= 1
        /\ Len(sent) = idx
        /\ Exited => exitStatus = 5

\* C3: in an unattended run in which communicationError is the first fatal
\* condition, the channel is killed, exitOrKill is never invoked, and the
\* status the driver terminates with is 7.
C3_CommErrorKillsWith7 ==
    (unattended /\ firstFatal = "commError") =>
        /\ killCalls >= 1
        /\ exitOrKillCalls = 0
        /\ Exited => exitStatus = 7

\* C4: in unattended mode a close signal arriving while exitRequested is
\* false terminates the driver with status 3; a close signal arriving while
\* exitRequested is true leaves the driver running (never status 3).
C4_CloseStatus ==
    [][(unattended /\ channel = "open" /\ channel' = "closed") =>
          IF exitRequested
          THEN exitStatus' = exitStatus /\ exitStatus' # 3
          ELSE exitStatus' = 3]_vars

C4_Witness ==
    /\ unattended
    /\ channel = "closed"
    /\ exitStatus = 3
    /\ Len(sent) >= 1

\* C5: in an unattended run in which every prepared request was sent and
\* none was answered unsuccessfully, the driver runs exitOrKill with a
\* grace period of 5000 and terminates with 6 when the channel had to be
\* killed and with 0 when it confirmed a clean exit.
C5_FinalShutdownStatus ==
    (unattended /\ firstFatal = "completed" /\ Len(sent) >= 1) =>
        /\ sent = requests
        /\ exitOrKillCalls = 1
        /\ graceGiven = 5000
        /\ Exited => /\ shutdownResult # "none"
                     /\ shutdownResult = "killed" => exitStatus = 6
                     /\ shutdownResult = "clean" => exitStatus = 0

\* C6: in an unattended run in which a service-disabled event is the first
\* fatal condition, the flag is set, the channel is killed and the status
\* the driver terminates with is 4.
C6_ServiceDisabledExitsWith4 ==
    (unattended /\ firstFatal = "event") =>
        /\ exitRequested
        /\ killCalls >= 1
        /\ Exited => exitStatus = 4

\* C7: a response {success: false, message: "No content available."} and an
\* absent response never take the unsuccessful-response path: the step that
\* receives one changes no exit status, calls neither kill nor the failure
\* shutdown, and goes on to the next request when there is one (and to the
\* normal end of the loop when there is none).
Benign(r) == ~r.present \/ (~r.success /\ r.message = NoContent)

ResponseReceived == pc = "message" /\ (pc' # pc \/ idx' # idx)

C7_BenignResponseContinues ==
    [][(ResponseReceived /\ Benign(response')) =>
          /\ exitStatus' = exitStatus
          /\ killCalls' = killCalls
          /\ idx' = idx + 1
          /\ pc' # "failShutdown"
          /\ IF idx < Len(requests)
             THEN /\ sent' = Append(sent, requests[idx + 1])
                  /\ pc' = "message"
                  /\ exitOrKillCalls' = exitOrKillCalls
             ELSE /\ sent' = sent
                  /\ pc' = IF unattended THEN "finalShutdown" ELSE "done"]_vars

C7_Witness ==
    /\ unattended
    /\ response = [present |-> TRUE, success |-> FALSE, message |-> NoContent]
    /\ pc = "message"
    /\ idx = 2
    /\ exitOrKillCalls = 0
    /\ exitStatus = NotExited

\* C8: in interactive mode the driver never terminates with a status in
\* 2..7 and never calls kill or exitOrKill, whatever bad lines, unsuccessful
\* responses, close signals, communicationError signals and service-disabled
\* events occur.
C8_InteractiveNeverForces ==
    ~unattended =>
        /\ exitStatus \notin 2..7
        /\ killCalls = 0
        /\ exitOrKillCalls = 0
        /\ pendingKill = <<>>

C8_Witness ==
    /\ ~unattended
    /\ \E k \in 1..lineNo : trace[k] \in {"badjson", "badfile"}
    /\ IsUnsuccessful(response)
    /\ signals = MaxSignals
    /\ closeReport = "Exited unexpectedly"
    /\ Len(sent) >= 2

\* C9 (as stated): in unattended mode no request from a line that follows
\* an exit line of the trace is placed in the emitted sequence or sent.
ExitSeenBefore(k) == \E j \in 1..(k - 1) : j <= Len(trace) /\ trace[j] = "exit"

C9_NothingAfterExit ==
    unattended =>
        /\ \A i \in DOMAIN requests : ~ExitSeenBefore(requests[i].seq)
        /\ \A i \in DOMAIN sent : ~ExitSeenBefore(sent[i].seq)

\* C9 (amended): in unattended mode every exit line is itself dropped, so
\* no record with command exit is placed in the emitted sequence or sent;
\* every well-formed request line handled so far, also one that follows an
\* exit line, has its record in the emitted sequence.
C9_OnlyExitDropped ==
    unattended =>
        /\ \A i \in DOMAIN requests : requests[i].command # "exit"
        /\ \A i \in DOMAIN sent : sent[i].command # "exit"
        /\ \A k \in 1..lineNo :
              trace[k] = "request" => \E i \in DOMAIN requests : requests[i].seq = k

C9_Witness ==
    /\ unattended
    /\ sawExit
    /\ \E i \in DOMAIN sent : ExitSeenBefore(sent[i].seq)

\* C10: blank lines before the first non-blank line do not affect
\* first-line detection: a header that is the first non-blank line is
\* consumed as the TraceHeader and produces no request record.
C10_BlankLinesKeepHeader ==
    \A k \in 1..lineNo :
        (trace[k] = "header" /\ \A j \in 1..(k - 1) : trace[j] = "blank") =>
            /\ rootDirPlaceholder = HeaderPlaceholder
            /\ serverArgs = HeaderServerArgs
            /\ \A i \in DOMAIN requests : requests[i].seq # k

\* C11: once the trace is read, the record {seq: 999999, command: "exit"}
\* is the last element of the prepared sequence exactly when the mode is
\* interactive and no trace line has command exit, and it occurs nowhere
\* else; in unattended mode the prepared sequence holds no record with
\* command exit; before the trace is read the sentinel is not there.
Sentinel == [seq |-> 999999, command |-> "exit"]

TraceHasExit == \E k \in DOMAIN trace : trace[k] = "exit"

C11_SentinelIffInteractiveNoExit ==
    /\ channel = "none" => \A i \in DOMAIN requests : requests[i] # Sentinel
    /\ channel # "none" =>
          /\ (~unattended /\ ~TraceHasExit)
                <=> (requests # <<>> /\ requests[Len(requests)] = Sentinel)
          /\ \A i \in DOMAIN requests : requests[i] = Sentinel => i = Len(requests)
    /\ unattended => \A i \in DOMAIN requests : requests[i].command # "exit"

C11_Witness ==
    /\ ~unattended
    /\ channel # "none"
    /\ Len(requests) = 3
    /\ requests[3] = Sentinel
    /\ requests[2].command = "open"

\* C12: in unattended mode a line that fails JSON parsing or whose file
\* read fails terminates the driver with status 2 at that line: no later
\* line is handled, the server is never launched and nothing is sent; and
\* status 2 arises in no other way.
BadLine(k) == trace[k] \in {"badjson", "badfile"}

C12_BadLineExits2 ==
    /\ (unattended /\ \E k \in 1..lineNo : BadLine(k)) =>
          /\ exitStatus = 2
          /\ BadLine(lineNo)
          /\ \A k \in 1..(lineNo - 1) : ~BadLine(k)
          /\ channel = "none"
          /\ sent = <<>>
          /\ pc = "reading"
    /\ exitStatus = 2 => (unattended /\ lineNo >= 1 /\ BadLine(lineNo))

C12_Witness ==
    /\ unattended
    /\ exitStatus = 2
    /\ lineNo = 2
    /\ Len(trace) = 3
    /\ Len(requests) = 1

\* C13: in interactive mode a handled line that fails JSON parsing or whose
\* file read fails contributes no record, every handled well-formed request
\* line (exit lines included) contributes exactly one record, the records
\* keep the order of their lines, and the bad line stops nothing: the
\* driver keeps running and, once launched, replays the records.
WellFormedRequest(k) == trace[k] \in {"request", "exit"}

RecordsOf(k) == {i \in DOMAIN requests : requests[i].seq = k}

C13_BadLineSkipped ==
    ~unattended =>
        /\ \A k \in 1..lineNo : BadLine(k) => RecordsOf(k) = {}
        /\ \A k \in 1..lineNo : WellFormedRequest(k) => Cardinality(RecordsOf(k)) = 1
        /\ \A i, j \in DOMAIN requests : i < j => requests[i].seq < requests[j].seq
        /\ exitStatus \in {NotExited, 0}
        /\ pc = "done" => sent = requests

C13_Witness ==
    /\ ~unattended
    /\ trace = <<"request", "badfile", "request">>
    /\ pc = "done"
    /\ Len(sent) = 3
    /\ sent[2].seq = 3

\* C14: for a trace of well-formed request lines followed by one trailing
\* exit line, the requests sent are always a prefix of the trace's requests
\* and, once the loop is over, exactly those requests in the same order:
\* all of them with the exit and no sentinel in interactive mode, all of
\* them without the exit in unattended mode, where exitOrKill has then been
\* called.
RoundTripTrace ==
    /\ Len(trace) >= 1
    /\ trace[Len(trace)] = "exit"
    /\ \A k \in 1..(Len(trace) - 1) : trace[k] = "request"

TraceRequests ==
    [k \in 1..(IF unattended THEN Len(trace) - 1 ELSE Len(trace)) |->
        [seq |-> k, command |-> IF trace[k] = "exit" THEN "exit" ELSE "open"]]

LoopOver == channel # "none" /\ idx > Len(requests)

C14_RoundTrip ==
    RoundTripTrace =>
        /\ IsPrefix(sent, TraceRequests)
        /\ LoopOver =>
              /\ sent = TraceRequests
              /\ unattended => exitOrKillCalls = 1
              /\ ~unattended => (exitOrKillCalls = 0 /\ killCalls = 0)

C14_Witness ==
    /\ RoundTripTrace
    /\ Len(trace) = 3
    /\ LoopOver
    /\ unattended
    /\ Len(sent) = 2

\* C15: in every reachable state in which the driver has sent an exit
\* request, called kill or called exitOrKill, exitRequested is true; once
\* true it never becomes false; so a close that follows the driver's own
\* shutdown action is never logged as "Exited unexpectedly" and never
\* exits with status 3.
ExitsSent == Cardinality({i \in DOMAIN sent : sent[i].command = "exit"})

ShutdownActionTaken == ExitsSent > 0 \/ killCalls > 0 \/ exitOrKillCalls > 0

C15_FlagBeforeShutdownAction ==
    /\ [](ShutdownActionTaken =>
            /\ exitRequested
            /\ exitStatus # 3
            /\ closeReport # "Exited unexpectedly")
    /\ [][exitRequested => exitRequested']_vars

C15_Witness ==
    /\ ExitsSent = 1
    /\ exitRequested
    /\ closeReport = "Shut down"
    /\ exitStatus = 0

\* C16: in unattended mode, once termination has begun because of an
\* unsuccessful response, a communicationError or a service-disabled event,
\* the status the driver terminates with is the code of that first
\* condition (5, 7 or 4), whatever signals and steps of the main loop
\* follow.
FatalCode(cause) ==
    CASE cause = "response"  -> 5
      [] cause = "commError" -> 7
      [] cause = "event"     -> 4
      [] OTHER               -> NotExited

C16_FirstFatalCodeKept ==
    (unattended /\ firstFatal \in {"response", "commError", "event"} /\ Exited) =>
        exitStatus = FatalCode(firstFatal)

\* C17: in a run that launched the channel, in which the channel did not
\* close on its own and which has terminated, the driver issued exactly one
\* teardown action: one sent exit request, one kill call or one exitOrKill
\* call.
Teardowns == ExitsSent + killCalls + exitOrKillCalls

C17_TornDownExactlyOnce ==
    (Exited /\ channel # "none" /\ closeReport # "Exited unexpectedly") =>
        Teardowns = 1

\* C18: in unattended mode, when the channel answers or closes and every
\* kill and exitOrKill call settles, every run terminates; the status is one
\* of 0, 2, 3, 4, 5, 6, 7 unless exitOrKill threw; and no request is sent
\* twice.
C18_TerminatesNoRetry ==
    /\ <>Exited
    /\ [](Exited => (exitStatus \in {0, 2, 3, 4, 5, 6, 7} \/ shutdownResult = "threw"))
    /\ [](/\ Len(sent) <= Len(requests)
          /\ \A i, j \in DOMAIN sent : i # j => sent[i] # sent[j])

C18_Witness ==
    /\ unattended
    /\ exitStatus = 0
    /\ shutdownResult = "clean"
    /\ Len(sent) = 2

\* C19: in interactive mode an exit request that is not the last record
\* sets exitRequested when it is sent, is sent like any other record, and
\* the loop goes on after it: each answer, also the answer to the exit
\* request, is followed by the send of the next record, and when the loop
\* is over every record has been sent in order.
C19_LoopContinuesPastExit ==
    /\ [](~unattended =>
            /\ ExitsSent > 0 => exitRequested
            /\ IsPrefix(sent, requests)
            /\ pc = "done" => sent = requests)
    /\ [][(~unattended /\ ResponseReceived /\ idx < Len(requests)) =>
             /\ sent' = Append(sent, requests[idx + 1])
             /\ pc' = "message"
             /\ idx' = idx + 1]_vars

C19_Witness ==
    /\ ~unattended
    /\ trace = <<"request", "exit", "request">>
    /\ exitRequested
    /\ pc = "done"
    /\ Len(sent) = 3
    /\ sent[2].command = "exit"
    /\ sent[3].seq = 3

\* C20 (as stated): the close handler logs exactly when exitRequested is
\* false or the close carries a nonzero code or a signal; a close without
\* code and signal after a requested shutdown is not logged, in either
\* mode.
CloseStep == channel = "open" /\ channel' = "closed"

C20_LogsOnlyAnomalies ==
    [][CloseStep =>
          ((closeReport' # "silent") <=> (~exitRequested \/ closeArgs' = "abnormal"))]_vars

\* C20 (amended): in unattended mode the close handler logs exactly when
\* exitRequested is false or the close carries a nonzero code or a signal;
\* in interactive mode it logs every close; the text is "Shut down" when
\* exitRequested is true and "Exited unexpectedly" otherwise.
C20_LogsAnomaliesOrInteractive ==
    [][CloseStep =>
          /\ (closeReport' # "silent")
                <=> (~unattended \/ ~exitRequested \/ closeArgs' = "abnormal")
          /\ closeReport' = "Shut down" => exitRequested
          /\ closeReport' = "Exited unexpectedly" => ~exitRequested]_vars

C20_Witness ==
    /\ ~unattended
    /\ exitRequested
    /\ closeArgs = "normal"
    /\ closeReport = "Shut down"
====
